---- MODULE Spec2Model ----
(***************************************************************************)
(* A model of the recurrence step engine of src/schedule.py: the Schedule  *)
(* kinds (Once, Daily, Weekly, Monthly, Yearly), their period arithmetic,  *)
(* the Monthly day resolver, prev_step / next_step / first_step /          *)
(* last_step and the steps() generator.                                    *)
(*                                                                         *)
(* An instant (a naive datetime with one-second resolution) is the number  *)
(* of seconds since 1970-01-01 00:00:00; a calendar day is the number of   *)
(* days since 1970-01-01 (a Thursday).  The proleptic Gregorian calendar   *)
(* of Python's datetime is computed exactly, so month lengths, leap years  *)
(* and weekdays are the real ones.                                         *)
(***************************************************************************)
EXTENDS Integers, Sequences, FiniteSets, TLC

VARIABLES sched, pc, op, arg, res, gen

vars == <<sched, pc, op, arg, res, gen>>

-----------------------------------------------------------------------------
(* Values *)

\* Python's None (absence of an instant); every instant of the model is > 0.
None == 0 - 1

\* The outcome of a call that never returns: prev_step re-entering itself
\* with the argument it was called with (RuntimeError: maximum recursion
\* depth exceeded).
RecursionError == 0 - 2

SecsPerDay == 86400

IsInstant(x) == x >= 0

-----------------------------------------------------------------------------
(* Python datetime / calendar arithmetic *)

Min(S) == CHOOSE x \in S : \A y \in S : x <= y
Max(S) == CHOOSE x \in S : \A y \in S : y <= x

\* The element of a one-element set.  {e(v) : v \in {x}} computes x once
\* and e with v bound to its value: the model's form of a local variable.
The(S) == CHOOSE x \in S : TRUE

\* sorted(list(set)): the ascending sequence of a finite set of integers.
SortedSeq(S) ==
    The({[i \in 1..Cardinality(T) |->
            CHOOSE x \in T : Cardinality({y \in T : y < x}) = i - 1] : T \in {S}})

SeqToSet(q) == {q[i] : i \in 1..Len(q)}

\* ts.date() as a day number, ts.time() as seconds since midnight.
DateOf(ts) == ts \div SecsPerDay
TimeOf(ts) == ts % SecsPerDay

\* dates.date.combine(date, time)
Combine(day, tod) == day * SecsPerDay + tod

IsLeap(y) == (y % 4 = 0 /\ y % 100 # 0) \/ y % 400 = 0

\* calendar.monthrange(y, m)[1]
DaysInMonth(y, m) ==
    IF m = 2 THEN (IF IsLeap(y) THEN 29 ELSE 28)
    ELSE IF m \in {4, 6, 9, 11} THEN 30 ELSE 31

\* The day number of the civil date y-m-d (date.toordinal, rebased to 1970):
\* yy is the year counted from March, split into a 400-year era and the
\* year of the era yoe; mp is the month counted from March.
CivilEraDays(era, yoe, mp, d) ==
    era * 146097 + yoe * 365 + yoe \div 4 - yoe \div 100
        + (153 * mp + 2) \div 5 + d - 1 - 719468

CivilYearDays(yy, mp, d) ==
    CivilEraDays(yy \div 400, yy % 400, mp, d)

DaysFromCivil(y, m, d) ==
    CivilYearDays(IF m <= 2 THEN y - 1 ELSE y, IF m > 2 THEN m - 3 ELSE m + 9, d)

\* The civil date of a day number (date.fromordinal), as [y, m, d]: the day
\* of the era doe gives the year of the era yoe, the day of the March-based
\* year doy and its month mp.
CivilOfMonth(era, yoe, doy, mp) ==
    [y |-> yoe + era * 400 + (IF mp >= 10 THEN 1 ELSE 0),
     m |-> IF mp < 10 THEN mp + 3 ELSE mp - 9,
     d |-> doy - (153 * mp + 2) \div 5 + 1]

CivilOfYearDay(era, yoe, doy) ==
    CivilOfMonth(era, yoe, doy, (5 * doy + 2) \div 153)

CivilOfYear(era, doe, yoe) ==
    CivilOfYearDay(era, yoe, doe - (365 * yoe + yoe \div 4 - yoe \div 100))

CivilOfEraDay(era, doe) ==
    CivilOfYear(era, doe,
        (doe - doe \div 1460 + doe \div 36524 - doe \div 146096) \div 365)

CivilOfShifted(zz) == CivilOfEraDay(zz \div 146097, zz % 146097)

CivilFromDays(z) == CivilOfShifted(z + 719468)

\* The days of the calendar the model computes with: 1995 to 2040.
CalendarDays == DaysFromCivil(1995, 1, 1)..DaysFromCivil(2040, 12, 31)

\* The civil date of each day of the calendar, computed once.
CivilDate == [z \in CalendarDays |-> CivilFromDays(z)]

\* The civil date [y, m, d] of the day of an instant.
Civil(ts) == CivilDate[DateOf(ts)]

YearOf(ts)  == Civil(ts).y
DayOf(ts)   == Civil(ts).d

\* datetime.weekday(): Monday is 0.
Weekday(ts) == (DateOf(ts) + 3) % 7

\* ts.timetuple().tm_yday: the 1-based day of the year.
YearDay(ts) == DateOf(ts) - DaysFromCivil(YearOf(ts), 1, 1) + 1

-----------------------------------------------------------------------------
(* The dates helper module: truncate and delta *)

MonthStart(c) == Combine(DaysFromCivil(c.y, c.m, 1), 0)
YearStart(c)  == Combine(DaysFromCivil(c.y, 1, 1), 0)

TruncateDay(ts)   == Combine(DateOf(ts), 0)
TruncateWeek(ts)  == Combine(DateOf(ts) - Weekday(ts), 0)
TruncateMonth(ts) == MonthStart(Civil(ts))
TruncateYear(ts)  == YearStart(Civil(ts))

DeltaSecs(ts, n) == ts + n
DeltaDays(ts, n) == ts + n * SecsPerDay

\* The day d of the month y-m, or the last day of that month when it is
\* shorter, at the time of day tod.
ClampedDate(y, m, d, tod) ==
    Combine(DaysFromCivil(y, m, IF d > DaysInMonth(y, m) THEN DaysInMonth(y, m) ELSE d),
            tod)

\* k counts months: k = 12 * year + (month - 1).
MonthNumberDate(k, d, tod) == ClampedDate(k \div 12, (k % 12) + 1, d, tod)

\* delta(ts, nMonths = n): the same day of the month n months away (the last
\* day of that month when it is shorter); the time of day is kept.
DeltaMonths(ts, n) ==
    The({MonthNumberDate(k, Civil(ts).d, TimeOf(ts)) :
            k \in {Civil(ts).y * 12 + (Civil(ts).m - 1) + n}})

DeltaYears(ts, n) == DeltaMonths(ts, 12 * n)

-----------------------------------------------------------------------------
(* Schedule: a record [kind, start, end, interval, lDays, weeks].          *)
(* lDays is the sorted day list (self.lDays), weeks the Monthly week rules *)
(* (self.weeks, a map from 1..5 to a set of weekdays), end is None when    *)
(* the schedule is open-ended.                                             *)

NoWeeks == [k \in 1..5 |-> {}]

Once(start) ==
    [kind |-> "once", start |-> start, end |-> start, interval |-> 1,
     lDays |-> <<0>>, weeks |-> NoWeeks]

Daily(start, end, nInterval) ==
    [kind |-> "daily", start |-> start, end |-> end, interval |-> nInterval,
     lDays |-> <<0>>, weeks |-> NoWeeks]

Weekly(lDays, start, end, nInterval) ==
    [kind |-> "weekly", start |-> start, end |-> end, interval |-> nInterval,
     lDays |-> SortedSeq(lDays), weeks |-> NoWeeks]

Monthly(lDays, start, end, nInterval, weeks) ==
    [kind |-> "monthly", start |-> start, end |-> end, interval |-> nInterval,
     lDays |-> SortedSeq(lDays), weeks |-> weeks]

Yearly(lDays, start, end, nInterval) ==
    [kind |-> "yearly", start |-> start, end |-> end, interval |-> nInterval,
     lDays |-> SortedSeq(lDays), weeks |-> NoWeeks]

-----------------------------------------------------------------------------
(* Period arithmetic, per kind *)

start_of_period(s, ts) ==
    CASE s.kind \in {"once", "daily"} -> TruncateDay(ts)
      [] s.kind = "weekly"            -> TruncateWeek(ts)
      [] s.kind = "monthly"           -> TruncateMonth(ts)
      [] s.kind = "yearly"            -> TruncateYear(ts)

period_day(s, ts) ==
    CASE s.kind \in {"once", "daily"} -> 0
      [] s.kind = "weekly"            -> Weekday(ts)
      [] s.kind = "monthly"           -> DayOf(ts)
      [] s.kind = "yearly"            -> YearDay(ts)

\* Schedule._offset: Monthly and Yearly define offset(day) = day - 1.
offset(s, day) == IF s.kind \in {"monthly", "yearly"} THEN day - 1 ELSE day

\* The whole months from the month of civil date a to the month of b.
months_between(a, b) == (b.y - a.y) * 12 + (b.m - a.m)

\* dlt of get_interval: the whole periods from start's period to ts's.
periods_between(s, ts) ==
    CASE s.kind = "daily"   -> DateOf(TruncateDay(ts)) - DateOf(TruncateDay(s.start))
      [] s.kind = "weekly"  ->
            (DateOf(TruncateWeek(ts)) - DateOf(TruncateWeek(s.start))) \div 7
      [] s.kind = "monthly" -> months_between(Civil(s.start), Civil(ts))
      [] s.kind = "yearly"  -> YearOf(ts) - YearOf(s.start)

\* A period start advanced by n periods of the kind.
advance(s, period, n) ==
    CASE s.kind \in {"once", "daily"} -> DeltaDays(period, n)
      [] s.kind = "weekly"            -> DeltaDays(period, 7 * n)
      [] s.kind = "monthly"           -> DeltaMonths(period, n)
      [] s.kind = "yearly"            -> DeltaYears(period, n)

\* interval_at without nMod: the period of ts itself.
interval_at_every_period(s, dlt) ==
    advance(s, start_of_period(s, s.start), dlt)

\* start's period advanced by dlt - nMod periods, nMod = dlt % interval.
interval_at(s, dlt) ==
    advance(s, start_of_period(s, s.start), dlt - (dlt % s.interval))

get_interval(s, ts) ==
    IF s.kind = "once" THEN TruncateDay(ts)
    ELSE The({interval_at(s, dlt) : dlt \in {periods_between(s, ts)}})

\* next_interval with Daily.next_interval returning the interval of ts itself
\* (the delta by nInterval days left out).
next_interval_daily_same(s, ts) ==
    IF s.kind = "daily" THEN get_interval(s, ts)
    ELSE The({advance(s, interval, s.interval) : interval \in {get_interval(s, ts)}})

next_interval(s, ts) ==
    The({advance(s, interval, s.interval) : interval \in {get_interval(s, ts)}})

\* last_interval receding by one period whatever the interval.
last_interval_one_period(s, ts) ==
    The({advance(s, interval, 0 - 1) : interval \in {get_interval(s, ts)}})

last_interval(s, ts) ==
    The({advance(s, interval, 0 - s.interval) : interval \in {get_interval(s, ts)}})

-----------------------------------------------------------------------------
(* The day resolver *)

\* week_rule_days counting calendar weeks (a new week on every Monday)
\* instead of 7-day blocks from the 1st.
week_rule_days_calendar_weeks(weeks, sdow, mdays) ==
    {dom \in 1..mdays :
        \/ /\ (sdow + dom - 1) \div 7 + 1 # 5
           /\ (sdow + dom - 1) \div 7 + 1 \in DOMAIN weeks
           /\ (sdow + dom - 1) % 7 \in weeks[(sdow + dom - 1) \div 7 + 1]
        \/ /\ dom >= mdays - 6
           /\ 5 \in DOMAIN weeks
           /\ (sdow + dom - 1) % 7 \in weeks[5]}

\* week_rule_days with startlastweek = mdays - 7: the last week one day long.
week_rule_days_long_last_week(weeks, sdow, mdays) ==
    {dom \in 1..mdays :
        \/ /\ (dom - 1) \div 7 + 1 # 5
           /\ (dom - 1) \div 7 + 1 \in DOMAIN weeks
           /\ (sdow + dom - 1) % 7 \in weeks[(dom - 1) \div 7 + 1]
        \/ /\ dom >= mdays - 7
           /\ 5 \in DOMAIN weeks
           /\ (sdow + dom - 1) % 7 \in weeks[5]}

\* The days of a month of mdays days whose 1st is the weekday sdow that
\* the week rules select.  In the loop over dom = 1..mdays, dow is the
\* weekday of dom, and week, incremented whenever dow returns to sdow, is
\* the ordinal of the 7-day block holding dom.
week_rule_days(weeks, sdow, mdays) ==
    {dom \in 1..mdays :
        \/ /\ (dom - 1) \div 7 + 1 # 5
           /\ (dom - 1) \div 7 + 1 \in DOMAIN weeks
           /\ (sdow + dom - 1) % 7 \in weeks[(dom - 1) \div 7 + 1]
        \/ /\ dom >= mdays - 6
           /\ 5 \in DOMAIN weeks
           /\ (sdow + dom - 1) % 7 \in weeks[5]}

civil_month_days(s, c) ==
    SortedSeq(SeqToSet(s.lDays)
                \cup week_rule_days(s.weeks, Weekday(MonthStart(c)), DaysInMonth(c.y, c.m)))

\* Monthly.days: the explicit days plus the days the week rules select in
\* the month of ts.
monthly_days(s, ts) == civil_month_days(s, Civil(ts))

days(s, ts) == IF s.kind = "monthly" THEN monthly_days(s, ts) ELSE s.lDays

-----------------------------------------------------------------------------
(* The step engine *)

\* "for d in sorted(days, reverse=True): if d <= ts_day: break": the value d
\* holds after the loop.
scan_down(D, ts_day) ==
    IF \E i \in 1..Len(D) : D[i] <= ts_day
    THEN D[Max({i \in 1..Len(D) : D[i] <= ts_day})]
    ELSE D[1]

\* "for d in days: if ts_day <= d: break": the value d holds after the loop.
scan_up(D, ts_day) ==
    IF \E i \in 1..Len(D) : ts_day <= D[i]
    THEN D[Min({i \in 1..Len(D) : ts_day <= D[i]})]
    ELSE D[Len(D)]

\* prev_step's ts_day: the period day, rolled back one day when the time of
\* day of ts is not after the schedule's.
prev_ts_day(s, ts) ==
    IF TimeOf(ts) <= TimeOf(s.start) THEN period_day(s, ts) - 1
    ELSE period_day(s, ts)

\* next_step's ts_day: the period day, rolled forward one day when the time
\* of day of ts is not before the schedule's.
next_ts_day(s, ts) ==
    IF TimeOf(ts) >= TimeOf(s.start) THEN period_day(s, ts) + 1
    ELSE period_day(s, ts)

\* The day prev_step picks: interval is get_interval(ts), last is
\* last_interval(ts), D is days(ts).
prev_step_day(s, interval, ts_period, ts_day, D, last) ==
    IF interval < ts_period
    THEN DeltaDays(interval, offset(s, D[Len(D)]))
    ELSE IF ts_day < D[1]
    THEN DeltaDays(last, offset(s, D[Len(D)]))
    ELSE IF ts_day >= D[Len(D)]
    THEN DeltaDays(interval, offset(s, D[Len(D)]))
    ELSE DeltaDays(interval, offset(s, scan_down(D, ts_day)))

\* The candidate prev_step computes before its window checks.
prev_candidate(s, ts) ==
    The({Combine(DateOf(prev_step_day(s, interval, ts_period, ts_day, D, last)),
                 TimeOf(s.start)) :
            interval \in {get_interval(s, ts)},
            ts_period \in {start_of_period(s, ts)},
            ts_day \in {prev_ts_day(s, ts)},
            D \in {days(s, ts)},
            last \in {last_interval(s, ts)}})

\* next_step_day without "interval = self.next_interval(ts)" when ts_day is
\* after all the days of the interval.
next_step_day_same_interval(s, interval, ts_period, ts_day, D, next) ==
    IF interval < ts_period
    THEN DeltaDays(next, offset(s, D[1]))
    ELSE IF ts_day > D[Len(D)]
    THEN DeltaDays(interval, offset(s, D[1]))
    ELSE IF ts_day <= D[1]
    THEN DeltaDays(interval, offset(s, D[1]))
    ELSE DeltaDays(interval, offset(s, scan_up(D, ts_day)))

\* The day next_step picks: interval is get_interval(ts), next is
\* next_interval(ts), D is days(ts).
next_step_day(s, interval, ts_period, ts_day, D, next) ==
    IF interval < ts_period
    THEN DeltaDays(next, offset(s, D[1]))
    ELSE IF ts_day > D[Len(D)]
    THEN DeltaDays(next, offset(s, D[1]))
    ELSE IF ts_day <= D[1]
    THEN DeltaDays(interval, offset(s, D[1]))
    ELSE DeltaDays(interval, offset(s, scan_up(D, ts_day)))

\* The candidate next_step computes before its window checks.
next_candidate(s, ts) ==
    The({Combine(DateOf(next_step_day(s, interval, ts_period, ts_day, D, next)),
                 TimeOf(s.start)) :
            interval \in {get_interval(s, ts)},
            ts_period \in {start_of_period(s, ts)},
            ts_day \in {next_ts_day(s, ts)},
            D \in {days(s, ts)},
            next \in {next_interval(s, ts)}})

\* The self-call prev_step(end + 1s) of prev_step's retry, given its
\* candidate p.  Its own retry would be the very same call, prev_step(end +
\* 1s), again and without end: Python raises "maximum recursion depth
\* exceeded".
prev_retry_checks(s, p) ==
    IF p < s.start THEN None
    ELSE IF p > s.end THEN RecursionError
    ELSE p

prev_step_retry(s) ==
    The({prev_retry_checks(s, p) : p \in {prev_candidate(s, DeltaSecs(s.end, 1))}})

\* prev_step's checks of its candidate p against the window.
prev_checks(s, p) ==
    IF p < s.start THEN None
    ELSE IF s.end # None /\ p > s.end THEN prev_step_retry(s)
    ELSE p

\* prev_step(ts)
prev_step(s, ts) == The({prev_checks(s, p) : p \in {prev_candidate(s, ts)}})

\* The self-call next_step(start - 1s) of next_step's retry, given its
\* candidate n; its own retry would be the same call again.
next_retry_checks(s, n) ==
    IF s.end # None /\ n > s.end THEN None
    ELSE IF n < s.start THEN RecursionError
    ELSE n

next_step_retry(s) ==
    The({next_retry_checks(s, n) : n \in {next_candidate(s, DeltaSecs(s.start, 0 - 1))}})

\* next_checks without the check against end.
next_checks_no_end(s, n) ==
    IF n < s.start THEN next_step_retry(s)
    ELSE n

\* next_step's checks of its candidate n against the window.
next_checks(s, n) ==
    IF s.end # None /\ n > s.end THEN None
    ELSE IF n < s.start THEN next_step_retry(s)
    ELSE n

\* next_step(ts)
next_step(s, ts) == The({next_checks(s, n) : n \in {next_candidate(s, ts)}})

first_step(s) == next_step(s, DeltaSecs(s.start, 0 - 1))

last_step(s) == IF s.end # None THEN prev_step(s, DeltaSecs(s.end, 1)) ELSE None

-----------------------------------------------------------------------------
(* The steps() generator *)

\* The bounds steps(after, before) works with, given the caller's (None
\* when omitted).
steps_after(s, after) ==
    IF after = None THEN DeltaSecs(s.start, 0 - 1) ELSE after

steps_before(s, before) ==
    IF before # None THEN before
    ELSE IF s.end # None THEN DeltaSecs(s.end, 1)
    ELSE DeltaMonths(s.start, 3)

\* No generator.  A generator holds the arguments steps() was called with
\* (args), its locals after, before and step, what it has yielded (out),
\* and whether it has stopped.
NoGen == [args |-> <<None, None>>, after |-> None, before |-> None,
          step |-> None, out |-> << >>, done |-> FALSE]

\* The generator object steps() returns: no statement of its body has run.
steps_new(s, after, before) ==
    [args |-> <<after, before>>,
     after |-> steps_after(s, after), before |-> steps_before(s, before),
     step |-> steps_after(s, after), out |-> << >>, done |-> FALSE]

\* steps_yield without "step <= before".
steps_yield_unbounded(g, step) ==
    IF IsInstant(step)
    THEN [g EXCEPT !.step = step, !.out = Append(g.out, step)]
    ELSE [g EXCEPT !.step = step, !.done = TRUE]

\* The generator after step = next_step(step): it yields step or stops.
steps_yield(g, step) ==
    IF IsInstant(step) /\ step <= g.before
    THEN [g EXCEPT !.step = step, !.out = Append(g.out, step)]
    ELSE [g EXCEPT !.step = step, !.done = TRUE]

\* One turn of "while True".
steps_turn(s, g) == The({steps_yield(g, step) : step \in {next_step(s, g.step)}})

-----------------------------------------------------------------------------
(* Bounds of the model *)

\* The largest interval (periods per interval) of a schedule.
MaxInterval == 2
\* The query window, in periods of each kind after the base period (one
\* period before the base period is always included).
MaxDays == 6
MaxWeeks == 2
MaxMonths == 3
MaxYears == 2
\* The longest enumeration steps() is followed through.
MaxYield == 100

\* The base date of the model: 2011-01-01, a Saturday in a common year
\* followed by the leap year 2012.
BaseDay == DaysFromCivil(2011, 1, 1)
Base == Combine(BaseDay, 0)

StartTimes == {0, 43200}
QueryTimes == {0, 43200, SecsPerDay - 1}

\* The days (offsets from the start of a period) queried in each period.
QueryOffsets(kind) ==
    CASE kind \in {"once", "daily"} -> {0}
      [] kind = "weekly"            -> 0..6
      [] kind = "monthly"           -> {0, 1, 2, 14, 27, 28, 29, 30}
      [] kind = "yearly"            -> {0, 1, 58, 59, 60, 364, 365}

MaxPeriods(kind) ==
    CASE kind \in {"once", "daily"} -> MaxDays
      [] kind = "weekly"            -> MaxWeeks
      [] kind = "monthly"           -> MaxMonths
      [] kind = "yearly"            -> MaxYears

\* The start of the period k periods after the base period.
PeriodStart(kind, k) ==
    CASE kind \in {"once", "daily"} -> DeltaDays(Base, k)
      [] kind = "weekly"            -> DeltaDays(TruncateWeek(Base), 7 * (k + 1))
      [] kind = "monthly"           -> DeltaMonths(Base, k)
      [] kind = "yearly"            -> DeltaYears(Base, k)

\* The reference instants the queries are called with.
Queries(kind) ==
    {DeltaDays(PeriodStart(kind, k), o) + t :
        k \in (0 - 1)..MaxPeriods(kind), o \in QueryOffsets(kind), t \in QueryTimes}

\* The day of the base period a schedule of each kind may start on.
StartOffsets(kind) ==
    CASE kind \in {"once", "daily"} -> {1}
      [] kind = "weekly"            -> {0, 3}
      [] kind = "monthly"           -> {0, 30}
      [] kind = "yearly"            -> {0, 59}

Starts(kind) ==
    {DeltaDays(PeriodStart(kind, 0), o) + t :
        o \in StartOffsets(kind), t \in StartTimes}

\* The end of a schedule, in days after its start: one before the start,
\* the others inside the query window.
EndOffsets(kind) ==
    CASE kind = "daily"   -> {0 - 1, 4}
      [] kind = "weekly"  -> {0 - 1, 10}
      [] kind = "monthly" -> {0 - 1, 59}
      [] kind = "yearly"  -> {0 - 1, 365}

Ends(kind, start) ==
    {None} \cup {Combine(DateOf(start) + o, t) :
                    o \in EndOffsets(kind), t \in {TimeOf(start), SecsPerDay - 1}}

Intervals == 1..MaxInterval

WeeklyDayLists == {{0}, {3}, {0, 6}, {1, 4}}

MonthlyDayLists == {{1}, {5, 10, 15}, {29}, {15, 31}}

\* Week rules: first Monday; last Friday; fourth and last Monday; first
\* Saturday and second Tuesday.
MonthlyWeekRules ==
    {[NoWeeks EXCEPT ![1] = {0}],
     [NoWeeks EXCEPT ![5] = {4}],
     [NoWeeks EXCEPT ![4] = {0}, ![5] = {0}],
     [NoWeeks EXCEPT ![1] = {5}, ![2] = {1}]}

YearlyDayLists == {{1}, {15, 45}, {60, 365}, {366}}

MonthlyDayRules ==
    (MonthlyDayLists \X {NoWeeks})
    \cup ({{}} \X MonthlyWeekRules)
    \cup {<<{15}, [NoWeeks EXCEPT ![5] = {4}]>>}

OnceSchedules == {Once(start) : start \in Starts("once")}

DailySchedules ==
    UNION {{Daily(start, e, n) : e \in Ends("daily", start), n \in Intervals} :
              start \in Starts("daily")}

WeeklySchedules ==
    UNION {{Weekly(d, start, e, n) :
                d \in WeeklyDayLists, e \in Ends("weekly", start), n \in Intervals} :
              start \in Starts("weekly")}

MonthlySchedules ==
    UNION {{Monthly(r[1], start, e, n, r[2]) :
                r \in MonthlyDayRules, e \in Ends("monthly", start), n \in Intervals} :
              start \in Starts("monthly")}

YearlySchedules ==
    UNION {{Yearly(d, start, e, n) :
                d \in YearlyDayLists, e \in Ends("yearly", start), n \in Intervals} :
              start \in Starts("yearly")}

\* The schedules of the model: each one passes the factory's checks.
Schedules ==
    OnceSchedules \cup DailySchedules \cup WeeklySchedules
        \cup MonthlySchedules \cup YearlySchedules

\* The bounds steps() is called with: omitted (None), or given.
StepsAfters(s) ==
    {None, s.start, PeriodStart(s.kind, 0 - 1) + (SecsPerDay - 1)}

StepsBefores(s) ==
    {None, s.start, PeriodStart(s.kind, MaxPeriods(s.kind))}

-----------------------------------------------------------------------------
(* The state machine: a schedule is constructed, then queried *)

Init ==
    /\ sched \in Schedules
    /\ pc = "idle"
    /\ op = "none"
    /\ arg = None
    /\ res = None
    /\ gen = NoGen

\* schedule.next_step(ts)
NextStep ==
    /\ pc = "idle"
    /\ \E ts \in Queries(sched.kind) :
          /\ op' = "next_step"
          /\ arg' = ts
          /\ res' = next_step(sched, ts)
    /\ pc' = "called"
    /\ UNCHANGED <<sched, gen>>

\* schedule.prev_step(ts)
PrevStep ==
    /\ pc = "idle"
    /\ \E ts \in Queries(sched.kind) :
          /\ op' = "prev_step"
          /\ arg' = ts
          /\ res' = prev_step(sched, ts)
    /\ pc' = "called"
    /\ UNCHANGED <<sched, gen>>

\* schedule.first_step()
FirstStep ==
    /\ pc = "idle"
    /\ op' = "first_step"
    /\ arg' = None
    /\ res' = first_step(sched)
    /\ pc' = "called"
    /\ UNCHANGED <<sched, gen>>

\* schedule.last_step()
LastStep ==
    /\ pc = "idle"
    /\ op' = "last_step"
    /\ arg' = None
    /\ res' = last_step(sched)
    /\ pc' = "called"
    /\ UNCHANGED <<sched, gen>>

\* g = schedule.steps(after, before): the generator is created.
StepsCall ==
    /\ pc = "idle"
    /\ \E after \in StepsAfters(sched), before \in StepsBefores(sched) :
          gen' = steps_new(sched, after, before)
    /\ pc' = "steps"
    /\ op' = "steps"
    /\ arg' = None
    /\ res' = None
    /\ UNCHANGED sched

\* next(g): the generator runs one turn of its loop and yields or stops.
StepsResume ==
    /\ pc = "steps"
    /\ Len(gen.out) < MaxYield
    /\ gen' = steps_turn(sched, gen)
    /\ pc' = IF gen'.done THEN "called" ELSE "steps"
    /\ res' = IF gen'.done THEN None ELSE gen'.step
    /\ UNCHANGED <<sched, op, arg>>

\* The caller takes the result; the schedule is ready for the next query.
Return ==
    /\ pc = "called"
    /\ pc' = "idle"
    /\ op' = "none"
    /\ arg' = None
    /\ res' = None
    /\ gen' = NoGen
    /\ UNCHANGED sched

Next ==
    \/ NextStep
    \/ PrevStep
    \/ FirstStep
    \/ LastStep
    \/ StepsCall
    \/ StepsResume
    \/ Return

Spec == Init /\ [][Next]_vars

\* The generator is resumed until it stops.
LiveSpec == Spec /\ WF_vars(StepsResume)

-----------------------------------------------------------------------------
(* Occurrences of a schedule, as the contract of the queries defines them *)

\* o is an occurrence of s: inside the window, at start's time of day, in a
\* period a whole multiple of interval periods after start's period, on a
\* day of the day list resolved for o's own period.
IsOccurrence(s, o) ==
    IF s.kind = "once" THEN o = s.start
    ELSE /\ s.start <= o
         /\ s.end # None => o <= s.end
         /\ TimeOf(o) = TimeOf(s.start)
         /\ periods_between(s, o) % s.interval = 0
         /\ period_day(s, o) \in SeqToSet(days(s, o))

\* The occurrences of s from lo to hi, both included.
OccurrencesIn(s, lo, hi) ==
    {o \in {Combine(d, TimeOf(s.start)) : d \in DateOf(lo)..DateOf(hi)} :
        lo <= o /\ o <= hi /\ IsOccurrence(s, o)}

\* An instant no occurrence after ts lies beyond, if there is any: the end,
\* or for an open-ended schedule the end of a leap-year cycle of intervals.
Horizon(s, ts) ==
    IF s.end # None THEN s.end
    ELSE DeltaYears(IF ts > s.start THEN ts ELSE s.start, 4 * s.interval + 4)

\* r is the least occurrence from lo on, or None when there is none.
IsLeastFrom(s, lo, r) ==
    IF r = None THEN OccurrencesIn(s, lo, Horizon(s, lo)) = {}
    ELSE /\ IsInstant(r)
         /\ lo <= r
         /\ IsOccurrence(s, r)
         /\ OccurrencesIn(s, lo, r - 1) = {}

\* r is the greatest occurrence up to hi, or None when there is none.
IsGreatestTo(s, hi, r) ==
    IF r = None THEN OccurrencesIn(s, s.start, hi) = {}
    ELSE /\ IsInstant(r)
         /\ r <= hi
         /\ IsOccurrence(s, r)
         /\ OccurrencesIn(s, r + 1, hi) = {}

\* The call op(...) has returned, or raised, res.
Called(o) == pc = "called" /\ op = o

-----------------------------------------------------------------------------
(* Properties *)

\* C1: for every kind of schedule and every reference instant ts,
\* next_step(ts) is None or an instant strictly after ts.
C1_NextStepAfter ==
    Called("next_step") => (res = None \/ (IsInstant(res) /\ res > arg))

\* next_step was asked at an occurrence and returned a later instant.
C1_Witness ==
    /\ Called("next_step")
    /\ IsOccurrence(sched, arg)
    /\ IsInstant(res)
    /\ res > arg

\* C2: for every kind of schedule and every reference instant ts, a
\* prev_step(ts) that returns returns None or an instant strictly before ts.
C2_PrevStepBefore ==
    (Called("prev_step") /\ res # RecursionError) => (res = None \/ res < arg)

\* C3: next_step(ts) is the least occurrence after ts, and None exactly when
\* there is none.
C3_NextStepLeast ==
    Called("next_step") => IsLeastFrom(sched, arg + 1, res)

\* C4: prev_step(ts) is the greatest occurrence before ts, and None exactly
\* when there is none.
C4_PrevStepGreatest ==
    Called("prev_step") => IsGreatestTo(sched, arg - 1, res)

\* C5: every instant next_step or prev_step returns lies in the window:
\* not before start, and not after end when end is set.
C5_InWindow ==
    ((Called("next_step") \/ Called("prev_step")) /\ IsInstant(res))
        => (sched.start <= res /\ (sched.end # None => res <= sched.end))

\* next_step's candidate was past the end and None was returned.
C5_Witness ==
    /\ Called("next_step")
    /\ sched.end # None
    /\ sched.end >= sched.start
    /\ IsInstant(next_candidate(sched, arg))
    /\ next_candidate(sched, arg) > sched.end
    /\ res = None

\* C6: for ts strictly before start, next_step(ts) equals first_step(), and
\* is the earliest occurrence at or after start.
C6_BeforeStartIsFirst ==
    (Called("next_step") /\ arg < sched.start)
        => (res = first_step(sched) /\ IsLeastFrom(sched, sched.start, res))

\* C7: for a schedule with an end and ts strictly after end, prev_step(ts)
\* equals last_step(), and is the latest occurrence at or before end, or
\* None when the window holds no occurrence.
C7_AfterEndIsLast ==
    (Called("prev_step") /\ sched.end # None /\ arg > sched.end)
        => (res = last_step(sched) /\ IsGreatestTo(sched, sched.end, res))

\* C8: a recurring schedule whose end is before its start has no
\* occurrences: next_step, prev_step, first_step and last_step return None
\* and steps() yields nothing.
C8_EndBeforeStartEmpty ==
    (sched.kind # "once" /\ sched.end # None /\ sched.end < sched.start)
        => /\ pc = "called" /\ op # "steps" => res = None
           /\ op = "steps" => gen.out = << >>

\* The bounds the contract of steps(after, before) states for the call.
steps_claimed_after ==
    IF gen.args[1] = None THEN sched.start - 1 ELSE gen.args[1]

steps_claimed_before ==
    IF gen.args[2] # None THEN gen.args[2]
    ELSE IF sched.end # None THEN sched.end
    ELSE DeltaMonths(sched.start, 3)

\* C9: what steps(after, before) has yielded is strictly increasing, and
\* every element e satisfies after < e <= before (after defaulting to start
\* minus one second, before to end, or to start plus 3 months without end).
C9_StepsIncreasingInBounds ==
    op = "steps" =>
        /\ \A i \in 1..Len(gen.out) :
              steps_claimed_after < gen.out[i] /\ gen.out[i] <= steps_claimed_before
        /\ \A i \in 1..(Len(gen.out) - 1) : gen.out[i] < gen.out[i + 1]

\* steps(), called without bounds, yielded several instants and stopped.
C9_Witness ==
    /\ Called("steps")
    /\ gen.args = <<None, None>>
    /\ gen.done
    /\ Len(gen.out) >= 3

\* C10: steps(after, before) terminates: a generator that is resumed until
\* it stops does stop.
C10_StepsTerminates == (pc = "steps") ~> Called("steps")

\* steps() on an open-ended schedule, enumerated to the default horizon of
\* three months, stopped after yielding an instant.
C10_Witness ==
    /\ Called("steps")
    /\ sched.end = None
    /\ gen.args[2] = None
    /\ gen.done
    /\ Len(gen.out) >= 1
    /\ gen.out[Len(gen.out)] <= DeltaMonths(sched.start, 3)

\* C11: steps() without bounds on a schedule with an end enumerates, in
\* ascending order and without gaps or repeats, exactly the occurrences in
\* [start, end].
C11_StepsEnumeratesWindow ==
    (Called("steps") /\ gen.args = <<None, None>> /\ sched.end # None /\ gen.done)
        => /\ \A i \in 1..(Len(gen.out) - 1) : gen.out[i] < gen.out[i + 1]
           /\ SeqToSet(gen.out) = OccurrencesIn(sched, sched.start, sched.end)

-----------------------------------------------------------------------------
(* The day resolver on its own: Monthly.days(ts) over a whole leap-year    *)
(* cycle of months                                                         *)

\* The years of months days() is called in, from 2008 on: in 28 years
\* every month length (28 to 31) starts on every weekday.
MaxCycleYears == 28

CycleBase == Combine(DaysFromCivil(2008, 1, 1), 0)

\* One instant in each month: noon of its 1st.
DaysQueries ==
    {DeltaMonths(CycleBase, k) + 43200 : k \in 0..(12 * MaxCycleYears - 1)}

\* One rule "k-th weekday w" for each k in 1..4 and w in 0..6.
NthWeekdayRules ==
    {[NoWeeks EXCEPT ![k] = {w}] : k \in 1..4, w \in 0..6}

\* One rule "last weekday w" for each w in 0..6.
LastWeekdayRules == {[NoWeeks EXCEPT ![5] = {w}] : w \in 0..6}

\* Day lists and week rules together: explicit days with the first and the
\* third Monday, and with every Wednesday.
MixedDayRules ==
    {<<{1, 7, 15, 21}, [NoWeeks EXCEPT ![1] = {0}, ![3] = {0}]>>,
     <<{3, 10, 31}, [NoWeeks EXCEPT ![1] = {2}, ![2] = {2}, ![3] = {2}, ![4] = {2}]>>,
     <<{28, 29, 30}, NoWeeks>>}

DaysSchedules ==
    {Monthly({}, Base, None, 1, w) : w \in NthWeekdayRules \cup LastWeekdayRules}
        \cup {Monthly(r[1], Base, None, 1, r[2]) : r \in MixedDayRules}

DaysInit ==
    /\ sched \in DaysSchedules
    /\ pc = "idle"
    /\ op = "none"
    /\ arg = None
    /\ res = None
    /\ gen = NoGen

\* schedule.days(ts)
Days ==
    /\ pc = "idle"
    /\ \E ts \in DaysQueries :
          /\ arg' = ts
          /\ res' = days(sched, ts)
    /\ op' = "days"
    /\ pc' = "called"
    /\ UNCHANGED <<sched, gen>>

DaysNext ==
    \/ Days
    \/ Return

DaysSpec == DaysInit /\ [][DaysNext]_vars

\* The weekday of day dom of the month of ts, from the calendar.
WeekdayOfDom(ts, dom) ==
    Weekday(Combine(DaysFromCivil(YearOf(ts), Civil(ts).m, dom), 0))

MonthLength(ts) == DaysInMonth(YearOf(ts), Civil(ts).m)

\* dom is the k-th date of the month of ts whose weekday is w.
IsNthWeekday(ts, dom, k, w) ==
    /\ WeekdayOfDom(ts, dom) = w
    /\ Cardinality({e \in 1..dom : WeekdayOfDom(ts, e) = w}) = k

\* C12: Monthly days(ref) is, ascending and without duplicates, the explicit
\* day list together with, for each rule key k in 1..4 and each weekday w of
\* its set, the k-th date of ref's month whose weekday is w.
C12_DaysNthWeekday ==
    (Called("days") /\ sched.weeks[5] = {})
        => /\ \A i \in 1..(Len(res) - 1) : res[i] < res[i + 1]
           /\ SeqToSet(res) =
                 SeqToSet(sched.lDays)
                     \cup {dom \in 1..MonthLength(arg) :
                             \E k \in 1..4 : \E w \in sched.weeks[k] :
                                 IsNthWeekday(arg, dom, k, w)}

\* days() was called in a February of 28 days that starts on a Tuesday, for
\* a schedule whose explicit days and week rules select a same day.
C12_Witness ==
    /\ Called("days")
    /\ sched.weeks[5] = {}
    /\ MonthLength(arg) = 28
    /\ WeekdayOfDom(arg, 1) = 1
    /\ \E k \in 1..4 : \E w \in sched.weeks[k] :
          \E i \in 1..Len(sched.lDays) : IsNthWeekday(arg, sched.lDays[i], k, w)

\* C13: for a Monthly schedule with no explicit days and the single rule
\* {5: [w]}, days(ref) is one day d, within the last 7 days of ref's month,
\* whose weekday is w.
C13_DaysLastWeekday ==
    (Called("days") /\ sched.lDays = << >> /\ sched \in DaysSchedules
        /\ sched.weeks[5] # {})
        => /\ Len(res) = 1
           /\ res[1] >= MonthLength(arg) - 6
           /\ res[1] <= MonthLength(arg)
           /\ WeekdayOfDom(arg, res[1]) \in sched.weeks[5]

\* days() was called in a February of 29 days for a "last weekday" rule and
\* returned the 23rd, the first of the last 7 days.
C13_Witness ==
    /\ Called("days")
    /\ sched.lDays = << >>
    /\ sched.weeks[5] # {}
    /\ MonthLength(arg) = 29
    /\ res = <<23>>

-----------------------------------------------------------------------------
(* The factory and the entry points once, daily, weekly, monthly, yearly   *)
(*                                                                         *)
(* An input is a record [entry, start, end, repeat, interval, days,       *)
(* weeks]: start is None when missing, interval is 0 when missing (None    *)
(* and 0 are both "not interval"), days is a set of integers, weeks a      *)
(* function from its keys to sets of integers (<< >> is the empty dict).   *)
(* An outcome is a record [kind, msgs, schedule]: a Schedule returned,     *)
(* the aggregated SchedulerError raised with its msgs, or the DnaError a   *)
(* constructor raised.                                                     *)

NoSchedule == [kind |-> "none"]

Returned(schedule) == [kind |-> "schedule", msgs |-> << >>, schedule |-> schedule]

\* raise errors
RaisedSchedulerError(msgs) ==
    [kind |-> "SchedulerError", msgs |-> msgs, schedule |-> NoSchedule]

\* raise DnaError(...) in a constructor.  The name DnaError is defined
\* nowhere in schedule.py: it is the host's, as in test_schedule.py.
RaisedDnaError == [kind |-> "DnaError", msgs |-> << >>, schedule |-> NoSchedule]

\* SchedulerError.add_field(name, reason, val): one entry appended; its
\* value (<< >> for None) is left out for "empty" and "undefined".
add_field(msgs, name, reason, val) ==
    Append(msgs, [field |-> name, reason |-> reason,
                  val |-> IF reason \in {"empty", "undefined"} THEN << >> ELSE val])

\* if not start
check_start(inp, msgs) ==
    IF inp.start = None THEN add_field(msgs, "start", "undefined", << >>) ELSE msgs

\* if repeat not in ('once', 'daily', 'weekly', 'monthly', 'yearly')
check_repeat(inp, msgs) ==
    IF inp.repeat \notin {"once", "daily", "weekly", "monthly", "yearly"}
    THEN add_field(msgs, "repeat", "unknown", <<inp.repeat>>)
    ELSE msgs

\* if repeat != 'once' and not interval
check_interval(inp, msgs) ==
    IF inp.repeat # "once" /\ inp.interval = 0
    THEN add_field(msgs, "interval", "undefined", << >>)
    ELSE msgs

\* The violations the loop over weeks reports, each with its place in the
\* order of the loop (keys ascending, the days of a key ascending): key k
\* not in 1..5 at 100 * k, day b of key k not in 0..6 at 100 * k + b + 1.
weeks_violations(weeks) ==
    {<<100 * k, "invalid week", k>> : k \in {a \in DOMAIN weeks : a \notin 1..5}}
        \cup UNION {{<<100 * k + b + 1, "invalid day", b>> :
                        b \in {c \in weeks[k] : c < 0 \/ c > 6}} :
                    k \in {a \in DOMAIN weeks : a \in 1..5}}

weeks_violation_at(V, rank) == CHOOSE v \in V : v[1] = rank

\* The entries the loop over weeks appends, in order.
weeks_entries(V, ranks) ==
    [i \in 1..Len(ranks) |->
        [field |-> "weeks", reason |-> weeks_violation_at(V, ranks[i])[2],
         val |-> <<weeks_violation_at(V, ranks[i])[3]>>]]

check_weeks(inp, msgs) ==
    The({msgs \o weeks_entries(V, SortedSeq({v[1] : v \in V})) :
            V \in {weeks_violations(inp.weeks)}})

\* hasweeks: some key in 1..5 holds a weekday in 0..6.
hasweeks(weeks) ==
    \E k \in DOMAIN weeks : k \in 1..5 /\ \E b \in weeks[k] : b >= 0 /\ b <= 6

\* The branch "repeat in ('weekly', 'monthly', 'yearly') and not days".
check_days_weeks(inp, msgs) ==
    IF ~(inp.repeat \in {"weekly", "monthly", "yearly"} /\ inp.days = {})
    THEN msgs
    ELSE IF inp.repeat = "monthly"
    THEN IF ~hasweeks(inp.weeks)
         THEN add_field(check_weeks(inp, msgs), "days", "undefined", << >>)
         ELSE check_weeks(inp, msgs)
    ELSE IF inp.repeat = "weekly"
    THEN add_field(msgs, "days", "undefined", << >>)
    ELSE msgs

\* errors, after the checks of the fields and before the construction.
factory_checks(inp) ==
    check_days_weeks(inp,
        check_interval(inp, check_repeat(inp, check_start(inp, << >>))))

\* Weekly.__init__
weekly_init(lDays, start, end, nInterval) ==
    IF start = None THEN RaisedDnaError
    ELSE IF \E i \in lDays : i < 0 \/ i > 6 THEN RaisedDnaError
    ELSE Returned(Weekly(lDays, start, end, nInterval))

\* self.weeks after Monthly.__init__: keys 1..5 empty, then every key of
\* weeks assigned its sorted list.
monthly_weeks(weeks) ==
    [k \in (1..5) \cup DOMAIN weeks |->
        IF k \in DOMAIN weeks THEN weeks[k] ELSE {}]

\* Monthly.__init__ without the check of the days' range.
monthly_init_any_day(lDays, start, end, nInterval, weeks) ==
    IF start = None THEN RaisedDnaError
    ELSE IF nInterval = 0 THEN RaisedDnaError
    ELSE Returned(Monthly(lDays, start, end, nInterval, monthly_weeks(weeks)))

\* Monthly.__init__
monthly_init(lDays, start, end, nInterval, weeks) ==
    IF start = None THEN RaisedDnaError
    ELSE IF nInterval = 0 THEN RaisedDnaError
    ELSE IF \E i \in lDays : i < 1 \/ i > 31 THEN RaisedDnaError
    ELSE Returned(Monthly(lDays, start, end, nInterval, monthly_weeks(weeks)))

\* Yearly.__init__
yearly_init(lDays, start, end, nInterval) ==
    IF start = None \/ lDays = {} THEN RaisedDnaError
    ELSE IF \E i \in lDays : i < 1 \/ i > 366 THEN RaisedDnaError
    ELSE Returned(Yearly(lDays, start, end, nInterval))

\* The try block: the constructor of the kind; nothing for an unknown repeat.
construct(inp) ==
    CASE inp.repeat = "once"    -> Returned(Once(inp.start))
      [] inp.repeat = "daily"   -> Returned(Daily(inp.start, inp.end, inp.interval))
      [] inp.repeat = "weekly"  ->
            weekly_init(inp.days, inp.start, inp.end, inp.interval)
      [] inp.repeat = "monthly" ->
            monthly_init(inp.days, inp.start, inp.end, inp.interval, inp.weeks)
      [] inp.repeat = "yearly"  ->
            yearly_init(inp.days, inp.start, inp.end, inp.interval)
      [] OTHER                  -> Returned(NoSchedule)

\* The end of factory: a DnaError of the constructor is not a
\* SchedulerError and passes the except clause; then "if errors: raise
\* errors", else the schedule is returned.
factory_outcome(msgs, built) ==
    IF built.kind = "DnaError" THEN RaisedDnaError
    ELSE IF Len(msgs) > 0 THEN RaisedSchedulerError(msgs)
    ELSE built

\* factory(start, end, repeat, interval, days, weeks)
factory(inp) ==
    The({factory_outcome(msgs, built) :
            msgs \in {factory_checks(inp)}, built \in {construct(inp)}})

\* once(start)
once(inp) ==
    factory([inp EXCEPT !.end = None, !.repeat = "once", !.interval = 1,
                        !.days = {}, !.weeks = << >>])

\* daily(start, end, nInterval)
daily(inp) == factory([inp EXCEPT !.repeat = "daily", !.days = {}, !.weeks = << >>])

\* weekly(lDays, start, end, nInterval): a day name is its index in
\* (mon, tue, wed, thu, fri, sat, sun), any other number a name that is not
\* in d; the message of the SchedulerError raised for it is one entry.
weekly(inp) ==
    IF \E s \in inp.days : s \notin 0..6
    THEN RaisedSchedulerError(
            <<[field |-> "", reason |-> "Unknown day of week",
               val |-> <<Min({s \in inp.days : s \notin 0..6})>>]>>)
    ELSE factory([inp EXCEPT !.repeat = "weekly", !.weeks = << >>])

\* monthly(lDays, start, end, nInterval, weeks)
monthly(inp) == factory([inp EXCEPT !.repeat = "monthly"])

\* yearly(lDays, start, end, nInterval)
yearly(inp) == factory([inp EXCEPT !.repeat = "yearly", !.weeks = << >>])

-----------------------------------------------------------------------------
(* Construction on its own: an input is drawn, one entry point is called.  *)

FactoryStarts == {None, Base}

FactoryRepeats == {"once", "daily", "weekly", "monthly", "yearly", "hourly"}

FactoryIntervals == (0 - MaxInterval)..MaxInterval

FactoryDayLists == {{}, {0}, {1}, {6, 7}, {31}, {32}, {366}, {367}}

FactoryWeeks ==
    {<< >>, 1 :> {0}, 1 :> {}, 6 :> {0}, 2 :> {7}, 1 :> {0, 9},
     (5 :> {4}) @@ (0 :> {1})}

FactoryInputs ==
    [entry : {"factory"}, start : FactoryStarts, end : {None},
     repeat : FactoryRepeats, interval : FactoryIntervals,
     days : FactoryDayLists, weeks : FactoryWeeks]
    \cup [entry : {"once"}, start : FactoryStarts, end : {None},
          repeat : {"once"}, interval : {1}, days : {{}}, weeks : {<< >>}]
    \cup [entry : {"daily"}, start : FactoryStarts, end : {None},
          repeat : {"daily"}, interval : FactoryIntervals, days : {{}},
          weeks : {<< >>}]
    \cup [entry : {"weekly"}, start : FactoryStarts, end : {None},
          repeat : {"weekly"}, interval : FactoryIntervals,
          days : FactoryDayLists, weeks : {<< >>}]
    \cup [entry : {"monthly"}, start : FactoryStarts, end : {None},
          repeat : {"monthly"}, interval : FactoryIntervals,
          days : FactoryDayLists, weeks : FactoryWeeks]
    \cup [entry : {"yearly"}, start : FactoryStarts, end : {None},
          repeat : {"yearly"}, interval : FactoryIntervals,
          days : FactoryDayLists, weeks : {<< >>}]

FactoryInit ==
    /\ sched = NoSchedule
    /\ pc = "input"
    /\ op = "none"
    /\ arg \in FactoryInputs
    /\ res = None
    /\ gen = NoGen

\* A call of factory returns or raises: sched is the Schedule obtained, if any.
FactoryCall ==
    /\ pc = "input"
    /\ arg.entry = "factory"
    /\ pc' = "called"
    /\ op' = "factory"
    /\ res' = factory(arg)
    /\ sched' = factory(arg).schedule
    /\ UNCHANGED <<arg, gen>>

\* A call of once.
OnceCall ==
    /\ pc = "input"
    /\ arg.entry = "once"
    /\ pc' = "called"
    /\ op' = "once"
    /\ res' = once(arg)
    /\ sched' = once(arg).schedule
    /\ UNCHANGED <<arg, gen>>

\* A call of daily.
DailyCall ==
    /\ pc = "input"
    /\ arg.entry = "daily"
    /\ pc' = "called"
    /\ op' = "daily"
    /\ res' = daily(arg)
    /\ sched' = daily(arg).schedule
    /\ UNCHANGED <<arg, gen>>

\* A call of weekly.
WeeklyCall ==
    /\ pc = "input"
    /\ arg.entry = "weekly"
    /\ pc' = "called"
    /\ op' = "weekly"
    /\ res' = weekly(arg)
    /\ sched' = weekly(arg).schedule
    /\ UNCHANGED <<arg, gen>>

\* A call of monthly.
MonthlyCall ==
    /\ pc = "input"
    /\ arg.entry = "monthly"
    /\ pc' = "called"
    /\ op' = "monthly"
    /\ res' = monthly(arg)
    /\ sched' = monthly(arg).schedule
    /\ UNCHANGED <<arg, gen>>

\* A call of yearly.
YearlyCall ==
    /\ pc = "input"
    /\ arg.entry = "yearly"
    /\ pc' = "called"
    /\ op' = "yearly"
    /\ res' = yearly(arg)
    /\ sched' = yearly(arg).schedule
    /\ UNCHANGED <<arg, gen>>

FactoryNext ==
    \/ FactoryCall
    \/ OnceCall
    \/ DailyCall
    \/ WeeklyCall
    \/ MonthlyCall
    \/ YearlyCall

FactorySpec == FactoryInit /\ [][FactoryNext]_vars

\* S if c holds, else nothing.
When(c, S) == IF c THEN S ELSE {}

\* The violations of an input without week rules, as the aggregated error
\* is to report them: start missing, repeat unknown, interval missing, the
\* day list missing for a kind that is not once or daily.
Violations(inp) ==
    When(inp.start = None, {<<"start", "undefined", << >> >>})
    \cup When(inp.repeat \notin {"once", "daily", "weekly", "monthly", "yearly"},
              {<<"repeat", "unknown", <<inp.repeat>> >>})
    \cup When(inp.repeat # "once" /\ inp.interval = 0,
              {<<"interval", "undefined", << >> >>})
    \cup When(inp.repeat \notin {"once", "daily"} /\ inp.days = {},
              {<<"days", "undefined", << >> >>})

MsgsAsSet(msgs) == {<<msgs[i].field, msgs[i].reason, msgs[i].val>> : i \in DOMAIN msgs}

\* C14: when an input of the factory (without week rules) violates the
\* rule of some field (start missing, repeat unknown, interval missing, day
\* list missing), the factory raises the aggregated error, and the error
\* holds exactly one entry for each violation; a lone empty day list of a
\* weekly or monthly schedule gives the single entry (days, undefined)
\* without a value.
C14_FactoryAggregates ==
    (Called("factory") /\ arg.weeks = << >> /\ Violations(arg) # {})
        => /\ res.kind = "SchedulerError"
           /\ Len(res.msgs) = Cardinality(Violations(arg))
           /\ MsgsAsSet(res.msgs) = Violations(arg)

\* C15: for repeat in daily, weekly, monthly, yearly and an interval of 0
\* or less, the factory raises an error and no Schedule is obtained.
C15_IntervalAtLeastOne ==
    (/\ Called("factory")
     /\ arg.repeat \in {"daily", "weekly", "monthly", "yearly"}
     /\ arg.interval < 1)
        => res.kind # "schedule" /\ sched = NoSchedule

\* Some key of weeks is outside 1..5 or some weekday of a key outside 0..6.
WeeksOutOfRange(weeks) ==
    \E k \in DOMAIN weeks : k \notin 1..5 \/ \E b \in weeks[k] : b \notin 0..6

\* C16: for repeat = monthly and week rules with a key outside 1..5 or a
\* weekday outside 0..6, the factory raises an error and no Schedule is
\* obtained, with or without an explicit day list.
C16_WeeksValidated ==
    (Called("factory") /\ arg.repeat = "monthly" /\ WeeksOutOfRange(arg.weeks))
        => res.kind # "schedule" /\ sched = NoSchedule

\* The day list of the input is out of range for its kind: a weekly day
\* outside 0..6, a monthly day outside 1..31, a yearly day outside 1..366
\* or no yearly day at all.
DaysOutOfRange(inp) ==
    CASE inp.repeat = "weekly"  -> \E i \in inp.days : i \notin 0..6
      [] inp.repeat = "monthly" -> \E i \in inp.days : i \notin 1..31
      [] inp.repeat = "yearly"  ->
            inp.days = {} \/ \E i \in inp.days : i \notin 1..366
      [] OTHER                  -> FALSE

\* C17: through factory, weekly(), monthly() and yearly() alike, a day list
\* out of range for its kind raises an error and no Schedule is obtained.
C17_DayListsRejected ==
    (/\ pc = "called"
     /\ op \in {"factory", "weekly", "monthly", "yearly"}
     /\ DaysOutOfRange(arg))
        => res.kind # "schedule" /\ sched = NoSchedule

\* monthly((32,), start) has raised the constructor's error.
C17_Witness ==
    /\ pc = "called"
    /\ op = "monthly"
    /\ arg.days = {32}
    /\ arg.start = Base
    /\ arg.interval = 1
    /\ arg.weeks = << >>
    /\ res.kind = "DnaError"
    /\ sched = NoSchedule

-----------------------------------------------------------------------------
(* The queries on a constructed schedule, again                            *)

\* C18: on every schedule and for every ts, prev_step(ts) and next_step(ts)
\* complete with an instant or None, never with an exception, and days(ts)
\* is a day list that is not empty.
C18_NoErrorPaths ==
    (pc = "called" /\ op \in {"prev_step", "next_step"})
        => /\ IsInstant(res) \/ res = None
           /\ days(sched, arg) # << >>

\* prev_step(ts) took its retry branch: its candidate is in or after the
\* window's start and after end.
PrevRetryTaken ==
    /\ Called("prev_step")
    /\ sched.end # None
    /\ prev_candidate(sched, arg) >= sched.start
    /\ prev_candidate(sched, arg) > sched.end

\* next_step(ts) took its retry branch: its candidate is not after end and
\* is before start.
NextRetryTaken ==
    /\ Called("next_step")
    /\ ~(sched.end # None /\ next_candidate(sched, arg) > sched.end)
    /\ next_candidate(sched, arg) < sched.start

\* C20: when prev_step or next_step takes its retry branch, the call made
\* there does not take the retry branch again, and the outer call returns.
C20_RetryTerminates ==
    (PrevRetryTaken \/ NextRetryTaken) => res # RecursionError

-----------------------------------------------------------------------------
(* Queries and the fields of the schedule: a query is asked, other        *)
(* queries and a steps() generator run, and the query is asked again.      *)

\* self.lDays after days(ts), in place of the additions to self.lDays
\* that "days = self.lDays" would make.
lDays_after_days_in_place(s, ts) == days(s, ts)

\* self.lDays after days(ts): Schedule.days returns the list and
\* Monthly.days adds the week rules' days to a copy, set(self.lDays).
lDays_after_days(s, ts) == s.lDays

\* The queries with a result; steps() gives a generator.
QueryNames == {"prev_step", "next_step", "first_step", "last_step", "days"}

\* The reference instant the query works with: its ts, or start - 1s in
\* first_step and end + 1s in last_step.
query_ts(s, q, ts) ==
    CASE q = "first_step" -> DeltaSecs(s.start, 0 - 1)
      [] q = "last_step"  -> DeltaSecs(s.end, 1)
      [] OTHER            -> ts

\* The result of the query.
query(s, q, ts) ==
    CASE q = "prev_step"  -> prev_step(s, ts)
      [] q = "next_step"  -> next_step(s, ts)
      [] q = "first_step" -> first_step(s)
      [] q = "last_step"  -> last_step(s)
      [] q = "days"       -> days(s, ts)

\* The Schedule after the query: no method assigns a field of self, and
\* the one list a query builds from a field is the day list of days(ts).
self_after(s, q, ts) ==
    IF q = "last_step" /\ s.end = None THEN s
    ELSE [s EXCEPT !.lDays = lDays_after_days(s, query_ts(s, q, ts))]

PureSchedules ==
    {s \in Schedules :
        s.interval = 1 /\ s.end # None /\ s.end > s.start /\ TimeOf(s.start) = 0}

\* The reference instants of the queries; first_step and last_step take none.
PureQueries(s, q) ==
    IF q \in {"first_step", "last_step"} THEN {None}
    ELSE {DeltaDays(PeriodStart(s.kind, k), o) :
            k \in 0..1, o \in QueryOffsets(s.kind)}

PureInit ==
    /\ sched \in PureSchedules
    /\ pc = "idle"
    /\ op = "none"
    /\ arg = None
    /\ res = None
    /\ gen = NoGen

\* A query is called and its result kept.
Ask ==
    /\ pc = "idle"
    /\ \E q \in QueryNames : \E ts \in PureQueries(sched, q) :
          /\ op' = q
          /\ arg' = ts
          /\ res' = query(sched, q, ts)
          /\ sched' = self_after(sched, q, ts)
    /\ pc' = "asked"
    /\ UNCHANGED gen

\* Another query is called in between; its result is dropped.
Between ==
    /\ pc = "asked"
    /\ \E q \in QueryNames : \E ts \in PureQueries(sched, q) :
          sched' = self_after(sched, q, ts)
    /\ UNCHANGED <<pc, op, arg, res, gen>>

\* g = schedule.steps() in between.
BetweenStepsCall ==
    /\ pc = "asked"
    /\ gen = NoGen
    /\ gen' = steps_new(sched, None, None)
    /\ UNCHANGED <<sched, pc, op, arg, res>>

\* next(g) in between: one turn of the generator, through next_step(step).
BetweenStepsResume ==
    /\ pc = "asked"
    /\ gen # NoGen
    /\ ~gen.done
    /\ Len(gen.out) < MaxYield
    /\ gen' = steps_turn(sched, gen)
    /\ sched' = self_after(sched, "next_step", gen.step)
    /\ UNCHANGED <<pc, op, arg, res>>

\* The first query is called again with the same ts.
AskAgain ==
    /\ pc = "asked"
    /\ res' = query(sched, op, arg)
    /\ sched' = self_after(sched, op, arg)
    /\ pc' = "again"
    /\ UNCHANGED <<op, arg, gen>>

PureNext ==
    \/ Ask
    \/ Between
    \/ BetweenStepsCall
    \/ BetweenStepsResume
    \/ AskAgain

PureSpec == PureInit /\ [][PureNext]_vars

-----------------------------------------------------------------------------
(* The days and periods the step engine lands on                           *)

\* next_step(ts) or prev_step(ts) has returned the instant res.
SteppedTo == pc = "called" /\ op \in {"next_step", "prev_step"} /\ IsInstant(res)

\* C21: for a Monthly schedule of week rules alone, the day of the month of
\* every instant next_step(ts) or prev_step(ts) returns is one of days()
\* resolved for the month of that instant.
C21_WeekRuleDayOfOwnMonth ==
    (SteppedTo /\ sched.kind = "monthly" /\ sched.lDays = << >>)
        => DayOf(res) \in SeqToSet(days(sched, res))

\* C22: for a Monthly schedule of explicit days without week rules, and
\* for a Yearly schedule, the day of the month (of the year) of every
\* instant next_step(ts) or prev_step(ts) returns is a day of the list.
C22_ListedDayNoSpill ==
    (/\ SteppedTo
     /\ \/ sched.kind = "monthly" /\ sched.lDays # << >> /\ sched.weeks = NoWeeks
        \/ sched.kind = "yearly")
        => period_day(sched, res) \in SeqToSet(sched.lDays)

\* The day list of the schedule fits inside every period: Daily, Weekly
\* days 0..6, Monthly explicit days up to 28 without week rules, Yearly
\* days up to 365.
FitsEveryPeriod(s) ==
    CASE s.kind = "daily"   -> TRUE
      [] s.kind = "weekly"  -> TRUE
      [] s.kind = "monthly" ->
            s.lDays # << >> /\ s.weeks = NoWeeks /\ \A d \in SeqToSet(s.lDays) : d <= 28
      [] s.kind = "yearly"  -> \A d \in SeqToSet(s.lDays) : d <= 365
      [] OTHER              -> FALSE

\* ts is inside the window of the schedule, in a period that is not the
\* first of an interval.
InOffPeriod(s, ts) ==
    /\ s.start <= ts
    /\ s.end # None => ts <= s.end
    /\ periods_between(s, ts) % s.interval # 0

\* C23: for a schedule whose day list fits inside every period, the period
\* of every instant next_step(ts) or prev_step(ts) returns is a whole
\* multiple of the interval after the period of start; from a ts of the
\* window in an off period, next_step returns the first listed day of the
\* next interval and prev_step the last listed day of the interval of ts.
C23_AnchorPeriodsOnly ==
    (SteppedTo /\ FitsEveryPeriod(sched))
        => /\ periods_between(sched, res) % sched.interval = 0
           /\ (op = "next_step" /\ InOffPeriod(sched, arg))
                => /\ start_of_period(sched, res) = next_interval(sched, arg)
                   /\ period_day(sched, res) = sched.lDays[1]
           /\ (op = "prev_step" /\ InOffPeriod(sched, arg))
                => /\ start_of_period(sched, res) = get_interval(sched, arg)
                   /\ period_day(sched, res) = sched.lDays[Len(sched.lDays)]

\* next_step(ts) was called on a schedule of every second month with a ts
\* of the window in the off month, and returned an instant.
C23_Witness ==
    /\ SteppedTo
    /\ op = "next_step"
    /\ sched.kind = "monthly"
    /\ sched.interval = 2
    /\ FitsEveryPeriod(sched)
    /\ InOffPeriod(sched, arg)
    /\ periods_between(sched, res) = 2

-----------------------------------------------------------------------------
(* Period arithmetic on its own: get_interval, next_interval and           *)
(* last_interval are called with instants before, in and after the        *)
(* period of start.                                                        *)

IntervalSchedules ==
    {[s EXCEPT !.interval = n] :
        s \in {x \in Schedules : x.kind # "once" /\ x.end = None},
        n \in 1..(MaxInterval + 1)}

IntervalInit ==
    /\ sched \in IntervalSchedules
    /\ pc = "idle"
    /\ op = "none"
    /\ arg = None
    /\ res = None
    /\ gen = NoGen

\* schedule.get_interval(ts)
GetInterval ==
    /\ pc = "idle"
    /\ \E ts \in Queries(sched.kind) :
          /\ arg' = ts
          /\ res' = get_interval(sched, ts)
    /\ op' = "get_interval"
    /\ pc' = "called"
    /\ UNCHANGED <<sched, gen>>

\* schedule.next_interval(ts)
NextInterval ==
    /\ pc = "idle"
    /\ \E ts \in Queries(sched.kind) :
          /\ arg' = ts
          /\ res' = next_interval(sched, ts)
    /\ op' = "next_interval"
    /\ pc' = "called"
    /\ UNCHANGED <<sched, gen>>

\* schedule.last_interval(ts)
LastInterval ==
    /\ pc = "idle"
    /\ \E ts \in Queries(sched.kind) :
          /\ arg' = ts
          /\ res' = last_interval(sched, ts)
    /\ op' = "last_interval"
    /\ pc' = "called"
    /\ UNCHANGED <<sched, gen>>

IntervalNext ==
    \/ GetInterval
    \/ NextInterval
    \/ LastInterval
    \/ Return

IntervalSpec == IntervalInit /\ [][IntervalNext]_vars

\* p is the start of a period, a whole multiple of the interval after (or
\* before) the period of start.
IsIntervalStart(s, p) ==
    /\ start_of_period(s, p) = p
    /\ periods_between(s, p) % s.interval = 0

\* C24: get_interval(ts) is the start of a period a whole multiple of N
\* periods from start's, not after the period of ts and less than N
\* periods before it; next_interval(ts) is the like period start exactly N
\* periods later, the first after the period of ts, and last_interval(ts)
\* the one exactly N periods earlier; also for ts before start.
C24_IntervalArithmetic ==
    /\ Called("get_interval")
        => /\ IsIntervalStart(sched, res)
           /\ res <= start_of_period(sched, arg)
           /\ periods_between(sched, arg) - periods_between(sched, res)
                 \in 0..(sched.interval - 1)
    /\ Called("next_interval")
        => /\ IsIntervalStart(sched, res)
           /\ start_of_period(sched, arg) < res
           /\ periods_between(sched, res) - periods_between(sched, arg)
                 \in 1..sched.interval
    /\ Called("last_interval")
        => /\ IsIntervalStart(sched, res)
           /\ res < start_of_period(sched, arg)
           /\ periods_between(sched, arg) - periods_between(sched, res)
                 \in sched.interval..(2 * sched.interval - 1)

\* last_interval(ts) was called on a schedule of every second month with a
\* ts in the month before start's, an off month, and returned the start of
\* the month four months before start's.
C24_Witness ==
    /\ Called("last_interval")
    /\ sched.kind = "monthly"
    /\ sched.interval = 2
    /\ arg < sched.start
    /\ periods_between(sched, arg) = 0 - 1
    /\ periods_between(sched, res) = 0 - 4

====
